---- MODULE Spec2Model ----
(***************************************************************************)
(* Meeting-scheduler server: the scheduling-link registry, the public      *)
(* booking handler and the handlers that touch a link's usage counter,     *)
(* modelled as request handlers that interleave at every awaited storage   *)
(* operation (each `await db[...]` is one atomic step on the store; the    *)
(* code between two awaits runs without interruption on the event loop).   *)
(***************************************************************************)
EXTENDS Integers, Sequences, FiniteSets, TLC

\* ---------------------------------------------------------------- bounds
NumProcs == 2
MaxOps == 2
MaxTicks == 2

\* ------------------------------------------------------ program constants
SecondsPerDay == 86400

Procs == 1..NumProcs
Users == {"x", "y"}
Slugs == {"intro-call", "demo"}

\* Optional[T]: None is the empty sequence, a value v is <<v>>.
None == <<>>
Some(v) == <<v>>
Truthy(o) == o # <<>>
Val(o) == o[1]

VARIABLES
    schedule_links,     \* db["schedule_links"]: set of link documents
    scheduled_events,   \* db["scheduled_events"]: set of booking documents
    calendars,          \* db["calendars"]: set of calendar documents
    events,             \* db["events"]: set of busy-interval documents
    next_oid,           \* next ObjectId the store hands out
    now,                \* datetime.utcnow(), in seconds
    ticks,              \* number of clock advances so far
    ops,                \* per worker: number of requests it has accepted
    pc,                 \* per worker: position inside its handler
    loc,                \* per worker: the handler's local variables (after the
                        \* response: the request it served)
    resp,               \* per worker: the last response sent
    tasks,              \* background tasks added and not finished, in add_task
                        \* order
    availability_windows \* db["availability_windows"]: set of window documents

db == <<schedule_links, scheduled_events, calendars, events, next_oid>>
clock == <<now, ticks>>
vars == <<schedule_links, scheduled_events, calendars, events, next_oid,
          now, ticks, ops, pc, loc, resp, tasks, availability_windows>>

\* ------------------------------------------------------------ timestamps
\* A scheduled_for string: an ISO wall-clock time t (seconds) and an optional
\* UTC-offset suffix. Two strings are equal only when both parts are.
TzForms == {"", "+00:00"}

\* datetime.fromisoformat(s) followed by replace(tzinfo=None): the offset is
\* dropped, not applied.
ParseNaive(s) == s.t

\* date.isoformat() of day d parsed back by datetime.fromisoformat: midnight.
FromIsoDate(d) == d * SecondsPerDay
\* datetime.date()
DateOf(t) == t \div SecondsPerDay
\* timedelta(days=n)
Days(n) == n * SecondsPerDay

\* ------------------------------------------------------- link validation
LinkExpiredLe(link, t) ==
    /\ Truthy(link.expirationDate)
    /\ DateOf(FromIsoDate(Val(link.expirationDate))) <= DateOf(t)

LinkExpired(link, t) ==
    /\ Truthy(link.expirationDate)
    /\ DateOf(FromIsoDate(Val(link.expirationDate))) < DateOf(t)

MaxUsesReachedGt(link) ==
    /\ Truthy(link.maxUses)
    /\ link.uses > Val(link.maxUses)

MaxUsesReached(link) ==
    /\ Truthy(link.maxUses)
    /\ link.uses >= Val(link.maxUses)

TooFarInAdvanceGe(link, s, t) ==
    ParseNaive(s) >= t + Days(link.maxDaysInAdvance)

TooFarInAdvance(link, s, t) ==
    ParseNaive(s) > t + Days(link.maxDaysInAdvance)

\* The same checks with the usage cap tested before the expiry date.
BookValidateCapFirst(link, req, t) ==
    IF MaxUsesReached(link) THEN "max_uses"
    ELSE IF LinkExpired(link, t) THEN "expired"
    ELSE IF TooFarInAdvance(link, req.scheduled_for, t) THEN "too_far"
    ELSE "pass"

\* The checks of book_meeting between the link lookup and the double-booking
\* query, in the order the handler makes them.
BookValidate(link, req, t) ==
    IF LinkExpired(link, t) THEN "expired"
    ELSE IF MaxUsesReached(link) THEN "max_uses"
    ELSE IF TooFarInAdvance(link, req.scheduled_for, t) THEN "too_far"
    ELSE "pass"

LinksById(id) == {l \in schedule_links : l._id = id}

ExistingBookingSameLink(user, link_id, s) ==
    {e \in scheduled_events :
        e.user_id = user /\ e.scheduling_link_id = link_id /\ e.scheduled_for = s}

ExistingBooking(user, link_id, s) ==
    {e \in scheduled_events : e.user_id = user /\ e.scheduled_for = s}

\* ------------------------------------------------------------ book_meeting
\* The handler returns (or raises HTTPException): its locals are gone, the
\* request it served and the response stay visible.
Respond(p, r) ==
    /\ pc' = [pc EXCEPT ![p] = "idle"]
    /\ resp' = [resp EXCEPT ![p] = r]
    /\ loc' = [loc EXCEPT ![p] = [op |-> @.op, req |-> @.req]]

RespondTo(p, op, req, r) ==
    /\ pc' = [pc EXCEPT ![p] = "idle"]
    /\ resp' = [resp EXCEPT ![p] = r]
    /\ loc' = [loc EXCEPT ![p] = [op |-> op, req |-> req]]

Goto(p, label) ==
    /\ pc' = [pc EXCEPT ![p] = label]
    /\ UNCHANGED <<resp, loc>>

Begin(p, label, locals) ==
    /\ pc' = [pc EXCEPT ![p] = label]
    /\ resp' = [resp EXCEPT ![p] = "pending"]
    /\ loc' = [loc EXCEPT ![p] = locals]

RECURSIVE SumOver(_, _)
SumOver(f, S) ==
    IF S = {} THEN 0
    ELSE LET x == CHOOSE y \in S : TRUE IN f[x] + SumOver(f, S \ {x})

OpsStarted == SumOver(ops, Procs)

\* A request may start on an idle worker.
Accept(p) ==
    /\ pc[p] = "idle"
    /\ OpsStarted < MaxOps
    /\ ops' = [ops EXCEPT ![p] = @ + 1]

BookLoad(p, req) ==
    /\ Accept(p)
    /\ LET found == LinksById(req.scheduling_link_id) IN
       IF found = {}
       THEN RespondTo(p, "book", req, "not_found")
       ELSE LET link == CHOOSE l \in found : TRUE
                v == BookValidate(link, req, now)
            IN  IF v # "pass"
                THEN RespondTo(p, "book", req, v)
                ELSE Begin(p, "book_check",
                           [op |-> "book", req |-> req, link |-> link])
    /\ UNCHANGED <<db, clock, availability_windows, tasks>>

\* A variant of the conflict check that bumps the usage counter before it
\* looks for the existing booking.
BookCheckIncFirst(p) ==
    /\ pc[p] = "book_check"
    /\ schedule_links' =
          {IF l._id = loc[p].req.scheduling_link_id
           THEN [l EXCEPT !.uses = @ + 1] ELSE l : l \in schedule_links}
    /\ IF ExistingBooking(loc[p].link.userId, loc[p].req.scheduling_link_id,
                          loc[p].req.scheduled_for) # {}
       THEN Respond(p, "slot_taken")
       ELSE Goto(p, "book_insert")
    /\ UNCHANGED <<scheduled_events, calendars, events, next_oid, clock,
                   availability_windows, tasks, ops>>

BookCheck(p) ==
    /\ pc[p] = "book_check"
    /\ IF ExistingBooking(loc[p].link.userId, loc[p].req.scheduling_link_id,
                          loc[p].req.scheduled_for) # {}
       THEN Respond(p, "slot_taken")
       ELSE Goto(p, "book_insert")
    /\ UNCHANGED <<db, clock, availability_windows, tasks, ops>>

\* booking.duration_minutes = link.get("meetingLength", booking.duration_minutes):
\* a stored link always has meetingLength (a required field of ScheduleLink).
DurationFromClient(link, req) == req.duration_minutes

NormalizedDuration(link, req) == link.meetingLength

BookInsert(p) ==
    /\ pc[p] = "book_insert"
    /\ scheduled_events' = scheduled_events \cup
          {[_id |-> next_oid,
            scheduling_link_id |-> loc[p].req.scheduling_link_id,
            user_id |-> loc[p].link.userId,
            scheduled_for |-> loc[p].req.scheduled_for,
            duration_minutes |-> NormalizedDuration(loc[p].link, loc[p].req),
            linkedin |-> loc[p].req.linkedin,
            enrichment |-> None]}
    /\ next_oid' = next_oid + 1
    /\ pc' = [pc EXCEPT ![p] = "book_inc"]
    /\ loc' = [loc EXCEPT ![p] =
                  [op |-> "book", req |-> @.req, link |-> @.link,
                   event_id |-> next_oid]]
    /\ UNCHANGED <<schedule_links, calendars, events, clock,
                   availability_windows, tasks, ops, resp>>

\* update_one({"_id": id}, {"$inc": {"uses": 1}}): no document, no change.
IncUses(id) ==
    {IF l._id = id THEN [l EXCEPT !.uses = @ + 1] ELSE l : l \in schedule_links}

BookInc(p) ==
    /\ pc[p] = "book_inc"
    /\ schedule_links' = IncUses(loc[p].req.scheduling_link_id)
    /\ Goto(p, "book_cal")
    /\ UNCHANGED <<scheduled_events, calendars, events, next_oid, clock,
                   availability_windows, tasks, ops>>

BookCalendar(p) ==
    /\ pc[p] = "book_cal"
    /\ calendars' = calendars \cup
          {[id |-> "internal", user_email |-> loc[p].link.userId]}
    /\ Goto(p, "book_event")
    /\ UNCHANGED <<schedule_links, scheduled_events, events, next_oid, clock,
                   availability_windows, tasks, ops>>

\* background_tasks.add_task(...): the notification always, the LinkedIn
\* summary when the request carries a profile reference. The tasks run on the
\* worker that served the request, after the response, in this order.
Task(kind, worker, event_id) ==
    [kind |-> kind, worker |-> worker, event_id |-> event_id,
     st |-> "queued", payload |-> None]

\* A variant that schedules the LinkedIn summary for every booking.
BookTasksAlwaysEnrich(p, event_id, req) ==
    <<Task("notify", p, event_id), Task("enrich", p, event_id)>>

\* `if booking.linkedin:` is false for None and for the empty string.
BookTasks(p, event_id, req) ==
    <<Task("notify", p, event_id)>>
        \o (IF Truthy(req.linkedin) /\ Val(req.linkedin) # ""
            THEN <<Task("enrich", p, event_id)>>
            ELSE <<>>)

\* db["events"].insert_one(calendar_event): a plain insert, the new document
\* gets its own _id.
InsertInternal(source_id, start, minutes) ==
    events \cup {[_id |-> next_oid,
                  calendar_id |-> "internal",
                  id |-> source_id,
                  start_time |-> start,
                  end_time |-> start + 60 * minutes]}

BookEvent(p) ==
    /\ pc[p] = "book_event"
    /\ events' = InsertInternal(loc[p].event_id, loc[p].req.scheduled_for.t,
                                NormalizedDuration(loc[p].link, loc[p].req))
    /\ next_oid' = next_oid + 1
    /\ tasks' = tasks \o BookTasks(p, loc[p].event_id, loc[p].req)
    /\ Respond(p, "ok")
    /\ UNCHANGED <<schedule_links, scheduled_events, calendars, clock,
                   availability_windows, ops>>

\* Any awaited storage call of the handler may raise (server unreachable,
\* timeout); `except Exception` turns it into a 500 response. What the
\* earlier steps wrote stays: nothing is undone.
BookStoreFails(p) ==
    /\ pc[p] \in {"book_check", "book_insert", "book_inc", "book_cal",
                  "book_event"}
    /\ Respond(p, "error")
    /\ UNCHANGED <<db, clock, availability_windows, tasks, ops>>

\* The ledger insert of the commit step carried out once more for a booking
\* that is already committed (the same calendar_event document).
InsertInternalAgain(p, b) ==
    /\ Accept(p)
    /\ \E e \in events : e.id = b._id
    /\ events' = InsertInternal(b._id, b.scheduled_for.t, b.duration_minutes)
    /\ next_oid' = next_oid + 1
    /\ RespondTo(p, "insert_internal", b._id, "ok")
    /\ UNCHANGED <<schedule_links, scheduled_events, calendars, clock,
                   availability_windows, tasks>>

BookStep(p) ==
    \/ BookCheck(p)
    \/ BookInsert(p)
    \/ BookInc(p)
    \/ BookCalendar(p)
    \/ BookEvent(p)

\* -------------------------------------------------------- background tasks
\* create_linkedin_summary is a coroutine that calls the synchronous
\* _scrape_linkedin_with_selenium (webdriver calls and time.sleep) directly:
\* while the call runs, the worker's event loop runs nothing else.
Busy(w) ==
    \E i \in DOMAIN tasks : tasks[i].worker = w /\ tasks[i].st = "scraping"

\* The tasks of one response run one after the other: the summary after the
\* notification.
Runnable(i) ==
    /\ tasks[i].st = "queued"
    /\ ~Busy(tasks[i].worker)
    /\ \A j \in 1..(i - 1) :
          tasks[j].kind = "notify" => tasks[j].event_id # tasks[i].event_id

SetTask(i, st, payload) ==
    tasks' = [tasks EXCEPT ![i] = [@ EXCEPT !.st = st, !.payload = payload]]

\* The task returned or raised: it is gone from the queue.
FinishTask(i) ==
    tasks' = [j \in 1..(Len(tasks) - 1) |->
                 IF j < i THEN tasks[j] ELSE tasks[j + 1]]

\* send_meeting_notification: reads the link, talks to the mail server, and
\* returns True or False, which nobody looks at; every exception is caught
\* inside.
NotifyRun(i) ==
    /\ tasks[i].kind = "notify"
    /\ Runnable(i)
    /\ FinishTask(i)
    /\ UNCHANGED <<db, clock, availability_windows, ops, pc, loc, resp>>

ScrapeBegin(i) ==
    /\ tasks[i].kind = "enrich"
    /\ Runnable(i)
    /\ SetTask(i, "scraping", None)
    /\ UNCHANGED <<db, clock, availability_windows, ops, pc, loc, resp>>


\* What the scraper returned: no posts (None), an error text, or posts.
ScrapeOutcomes == {"no_posts", "scrape_error", "posts"}

Enrichment(summary, t) == [linkedin_summary |-> summary, enriched_at |-> t]

\* With posts the coroutine calls gemini_service.generate_linkedin_analysis,
\* which GeminiService does not define: the call raises, the exception is
\* logged and re-raised out of the task, and nothing is written.
ScrapeEnd(i, outcome) ==
    /\ tasks[i].st = "scraping"
    /\ IF outcome = "posts"
       THEN FinishTask(i)
       ELSE SetTask(i, "write", Some(Enrichment(outcome, now)))
    /\ UNCHANGED <<db, clock, availability_windows, ops, pc, loc, resp>>

\* Two variants of the write below: one removes the booking when the scrape
\* failed, one keeps an enrichment that is already there.
SetEnrichmentOrRollback(id, payload) ==
    IF Val(payload).linkedin_summary = "scrape_error"
    THEN {b \in scheduled_events : b._id # id}
    ELSE {IF b._id = id THEN [b EXCEPT !.enrichment = payload] ELSE b :
             b \in scheduled_events}

SetEnrichmentKeepFirst(id, payload) ==
    {IF b._id = id /\ b.enrichment = None
     THEN [b EXCEPT !.enrichment = payload] ELSE b : b \in scheduled_events}

\* update_one({"_id": ObjectId(event_id)}, {"$set": {"enrichment": e}}),
\* no upsert.
SetEnrichment(id, payload) ==
    {IF b._id = id THEN [b EXCEPT !.enrichment = payload] ELSE b :
        b \in scheduled_events}

EnrichWrite(i) ==
    /\ tasks[i].st = "write"
    /\ ~Busy(tasks[i].worker)
    /\ scheduled_events' = SetEnrichment(tasks[i].event_id, tasks[i].payload)
    /\ FinishTask(i)
    /\ UNCHANGED <<schedule_links, calendars, events, next_oid, clock,
                   availability_windows, ops, pc, loc, resp>>

\* The queue lives in the worker process: when the worker is restarted
\* (max_requests, timeout) its tasks are gone.
OfOtherWorker(t, w) == t.worker # w

WorkerRestart(w) ==
    /\ pc[w] = "idle"
    /\ \E i \in DOMAIN tasks : tasks[i].worker = w
    /\ tasks' = SelectSeq(tasks, LAMBDA t : OfOtherWorker(t, w))
    /\ UNCHANGED <<db, clock, availability_windows, ops, pc, loc, resp>>

\* create_linkedin_summary(event_id, ...) called once more on worker w, for
\* any id: a booking's, or one no booking has.
EnrichAgain(w, id) ==
    /\ OpsStarted < MaxOps
    /\ ops' = [ops EXCEPT ![w] = @ + 1]
    /\ tasks' = Append(tasks, Task("enrich", w, id))
    /\ UNCHANGED <<db, clock, availability_windows, pc, loc, resp>>

\* A handler step is taken only while the worker is not inside the scraper.
OnLoop(p) == ~Busy(p)

WorkerBookLoad(p, req) == OnLoop(p) /\ BookLoad(p, req)

WorkerBookStep(p) == OnLoop(p) /\ BookStep(p)

\* ------------------------------------------------------------------ clock
TickSteps == {1, SecondsPerDay - 1}

Tick(d) ==
    /\ ticks < MaxTicks
    /\ now' = now + d
    /\ ticks' = ticks + 1
    /\ UNCHANGED <<db, tasks, availability_windows, ops, pc, loc, resp>>

\* ---------------------------------------------------------- initial states
\* A link as create_schedule_link stores it.
NewLink(id, user, slug, maxUses, exp) ==
    [_id |-> id, userId |-> user, slug |-> slug, meetingLength |-> 30,
     maxUses |-> maxUses, expirationDate |-> exp, maxDaysInAdvance |-> 1,
     createdAt |-> 0, uses |-> 0]

InitWith(links) ==
    /\ schedule_links = links
    /\ scheduled_events = {}
    /\ calendars = {}
    /\ events = {}
    /\ next_oid = Cardinality(links) + 1
    /\ now = 0
    /\ ticks = 0
    /\ ops = [p \in Procs |-> 0]
    /\ pc = [p \in Procs |-> "idle"]
    /\ loc = [p \in Procs |-> [op |-> "none"]]
    /\ resp = [p \in Procs |-> "none"]
    /\ tasks = <<>>
    /\ availability_windows = {}

\* ---------------------------------------------------- schedule_links routes
\* A validated ScheduleLink request body (models/schedule_links.py).
LinkInputs ==
    [slug : Slugs, meetingLength : {30}, maxUses : {None, Some(1)},
     expirationDate : {None}, maxDaysInAdvance : {1}]

\* A store without that index accepts every write.
NoSlugIndex(links) == FALSE

\* The unique index on (slug, userId) created by init_db.
ViolatesSlugIndex(links) ==
    \E a, b \in links : a._id # b._id /\ a.slug = b.slug /\ a.userId = b.userId

CreateCheck(p, user, link) ==
    /\ Accept(p)
    /\ LET req == [user |-> user, link |-> link] IN
       IF \E l \in schedule_links : l.userId = user /\ l.slug = link.slug
       THEN RespondTo(p, "create", req, "conflict")
       ELSE Begin(p, "create_insert", [op |-> "create", req |-> req])
    /\ UNCHANGED <<db, clock, availability_windows, tasks>>

CreateInsert(p) ==
    /\ pc[p] = "create_insert"
    /\ LET in == loc[p].req.link
           doc == [_id |-> next_oid, userId |-> loc[p].req.user,
                   slug |-> in.slug, meetingLength |-> in.meetingLength,
                   maxUses |-> in.maxUses, expirationDate |-> in.expirationDate,
                   maxDaysInAdvance |-> in.maxDaysInAdvance,
                   createdAt |-> now, uses |-> 0]
       IN  IF ViolatesSlugIndex(schedule_links \cup {doc})
           THEN /\ Respond(p, "conflict")
                /\ UNCHANGED <<schedule_links, next_oid>>
           ELSE /\ schedule_links' = schedule_links \cup {doc}
                /\ next_oid' = next_oid + 1
                /\ Respond(p, "ok")
    /\ UNCHANGED <<scheduled_events, calendars, events, clock,
                   availability_windows, tasks, ops>>

UpdateReqs == [user : Users, link_id : 1..2, link : LinkInputs]

UpdateLoad(p, req) ==
    /\ Accept(p)
    /\ LET found == {l \in schedule_links :
                        l._id = req.link_id /\ l.userId = req.user} IN
       IF found = {}
       THEN RespondTo(p, "update", req, "not_found")
       ELSE LET existing == CHOOSE l \in found : TRUE IN
            Begin(p, IF req.link.slug # existing.slug
                     THEN "update_slug" ELSE "update_write",
                  [op |-> "update", req |-> req, link |-> existing])
    /\ UNCHANGED <<db, clock, availability_windows, tasks>>

UpdateSlugCheck(p) ==
    /\ pc[p] = "update_slug"
    /\ IF \E l \in schedule_links :
            /\ l.userId = loc[p].req.user
            /\ l.slug = loc[p].req.link.slug
            /\ l._id # loc[p].req.link_id
       THEN Respond(p, "conflict")
       ELSE Goto(p, "update_write")
    /\ UNCHANGED <<db, clock, availability_windows, tasks, ops>>

\* link_data of update_schedule_link: the request's fields, and the creation
\* time and usage counter of the document as it was read at the start of the
\* handler. link_data has no userId, so $set leaves the owner alone.
UpdateSet(l, in, existing) ==
    [l EXCEPT !.slug = in.slug, !.meetingLength = in.meetingLength,
              !.maxUses = in.maxUses, !.expirationDate = in.expirationDate,
              !.maxDaysInAdvance = in.maxDaysInAdvance,
              !.createdAt = existing.createdAt,
              !.uses = existing.uses]

UpdateWrite(p) ==
    /\ pc[p] = "update_write"
    /\ LET new == {IF l._id = loc[p].req.link_id
                   THEN UpdateSet(l, loc[p].req.link, loc[p].link)
                   ELSE l : l \in schedule_links}
       IN  IF ViolatesSlugIndex(new)
           THEN \* DuplicateKeyError, caught by `except Exception`: 500
                /\ Respond(p, "error")
                /\ UNCHANGED schedule_links
           ELSE /\ schedule_links' = new
                /\ Respond(p, "ok")
    /\ UNCHANGED <<scheduled_events, calendars, events, next_oid, clock,
                   availability_windows, tasks, ops>>

\* Request slugs as typed by the caller, and ScheduleLink.validate_slug: the
\* charset is checked and the value is returned in lowercase.
RawSlugs == Slugs \cup {"Intro-Call"}

ValidateSlug(v) == IF v = "Intro-Call" THEN "intro-call" ELSE v

RawLinkInputs ==
    [slug : RawSlugs, meetingLength : {30}, maxUses : {None, Some(1)},
     expirationDate : {None}, maxDaysInAdvance : {1}]

\* POST /schedule-links: the body is validated into a ScheduleLink before
\* the handler runs.
CreateScheduleLink(p, user, body) ==
    CreateCheck(p, user, [body EXCEPT !.slug = ValidateSlug(@)])

\* DELETE /schedule-links/{link_id}: one delete_one filtered by _id and
\* userId; deleted_count == 0 is answered 404. No other collection is touched.
DeleteReqs == [user : Users, link_id : 1..2]

DeleteLink(p, req) ==
    /\ Accept(p)
    /\ LET found == {l \in schedule_links :
                        l._id = req.link_id /\ l.userId = req.user} IN
       /\ schedule_links' = schedule_links \ found
       /\ RespondTo(p, "delete", req,
                    IF found = {} THEN "not_found" ELSE "ok")
    /\ UNCHANGED <<scheduled_events, calendars, events, next_oid, clock,
                   availability_windows, tasks>>

\* find_one({"slug": slug}): any one of the matching documents.
LinksBySlug(slug) == {l \in schedule_links : l.slug = slug}

\* The checks shared by the slug-keyed handlers (the schedule_links routes
\* read datetime.now(), the public route datetime.utcnow(): the server's
\* clock is taken to be UTC).
SlugValidate(link, t) ==
    IF LinkExpired(link, t) THEN "expired"
    ELSE IF MaxUsesReached(link) THEN "max_uses"
    ELSE "pass"

\* GET /schedule-links/public/{slug}
FetchLoad(p, slug) ==
    /\ Accept(p)
    /\ IF LinksBySlug(slug) = {}
       THEN RespondTo(p, "fetch", slug, "not_found")
       ELSE \E link \in LinksBySlug(slug) :
              IF SlugValidate(link, now) # "pass"
              THEN RespondTo(p, "fetch", slug, SlugValidate(link, now))
              ELSE Begin(p, "fetch_inc",
                         [op |-> "fetch", req |-> slug, link |-> link])
    /\ UNCHANGED <<db, clock, availability_windows, tasks>>

FetchInc(p) ==
    /\ pc[p] = "fetch_inc"
    /\ schedule_links' = IncUses(loc[p].link._id)
    /\ Respond(p, "ok")
    /\ UNCHANGED <<scheduled_events, calendars, events, next_oid, clock,
                   availability_windows, tasks, ops>>

\* POST /schedule-links/increment-use/{slug}
IncrementLoad(p, slug) ==
    /\ Accept(p)
    /\ IF LinksBySlug(slug) = {}
       THEN RespondTo(p, "increment", slug, "not_found")
       ELSE \E link \in LinksBySlug(slug) :
              IF SlugValidate(link, now) # "pass"
              THEN RespondTo(p, "increment", slug, SlugValidate(link, now))
              ELSE Begin(p, "increment_write",
                         [op |-> "increment", req |-> slug, link |-> link])
    /\ UNCHANGED <<db, clock, availability_windows, tasks>>

IncrementWrite(p) ==
    /\ pc[p] = "increment_write"
    /\ schedule_links' = IncUses(loc[p].link._id)
    /\ Respond(p, IF LinksById(loc[p].link._id) = {} THEN "error" ELSE "ok")
    /\ UNCHANGED <<scheduled_events, calendars, events, next_oid, clock,
                   availability_windows, tasks, ops>>

\* The ids of the calendar documents of a user: cal.get("id"), documents
\* without that field are skipped.
CalendarIds(user) ==
    {c.id : c \in {d \in calendars :
                      d.user_email = user /\ "id" \in DOMAIN d}}

\* The events returned for a link: per calendar id of the link's owner, the
\* documents with that calendar_id, start_time <= max_date and
\* end_time >= now.
BusyEvents(link, t) ==
    {e \in events :
        /\ e.calendar_id \in CalendarIds(link.userId)
        /\ e.start_time <= t + Days(link.maxDaysInAdvance)
        /\ e.end_time >= t}

\* GET /public/schedule/{slug}: reads only; the response carries the events.
PublicGet(p, slug) ==
    /\ Accept(p)
    /\ IF LinksBySlug(slug) = {}
       THEN RespondTo(p, "public_get", slug, "not_found")
       ELSE \E link \in LinksBySlug(slug) :
              IF SlugValidate(link, now) # "pass"
              THEN RespondTo(p, "public_get", slug, SlugValidate(link, now))
              ELSE /\ pc' = [pc EXCEPT ![p] = "idle"]
                   /\ resp' = [resp EXCEPT ![p] = "ok"]
                   /\ loc' = [loc EXCEPT ![p] =
                                 [op |-> "public_get", req |-> slug,
                                  link |-> link,
                                  events |-> BusyEvents(link, now)]]
    /\ UNCHANGED <<db, clock, availability_windows, tasks>>

\* ------------------------------------------------------- synced calendars
CalendarRefs == {"work", "home"}

\* The 'start' / 'end' objects of a provider event: a dateTime with a UTC
\* offset in seconds, or a date (all-day event).
TimeDicts ==
    [dateTime : {Some([t |-> 11 * 3600, off |-> 3600])}, date : {None}]
    \cup [dateTime : {None}, date : {Some(1)}]

\* EventDBService._parse_time: dateTime if present, else date; an offset-aware
\* value is stored as its UTC instant, a date as that day's midnight.
ParseTime(time_dict) ==
    IF Truthy(time_dict.dateTime)
    THEN Val(time_dict.dateTime).t - Val(time_dict.dateTime).off
    ELSE FromIsoDate(Val(time_dict.date))

\* Provider events as the events endpoint returns them: 'summary' is absent
\* for an untitled event.
RawEvents ==
    [id : {"e1", "e2"}, summary : {Some("standup"), None}, start : TimeDicts]

\* EventDBService._parse_event_dict: event['summary'] raises KeyError when
\* the key is absent.
ParseRaises(event) == ~Truthy(event.summary)

ParseEventDict(calendar_id, event, t) ==
    [id |-> event.id, calendar_id |-> calendar_id,
     summary |-> Val(event.summary),
     start_time |-> ParseTime(event.start),
     end_time |-> ParseTime(event.start) + 1800,
     status |-> "confirmed", updated_at |-> t]

\* The documents update_one's filter {"id", "calendar_id"} matches.
UpsertMatches(event) ==
    {d \in events : d.id = event.id /\ d.calendar_id = event.calendar_id}

\* A variant that inserts a new document on every call.
UpsertInsertsAlways(event) == {}

\* EventDBService._upsert_event: $set the parsed fields on one matching
\* document, or insert them with created_at when none matches.
UpsertEvent(event) ==
    IF UpsertMatches(event) = {}
    THEN /\ events' = events \cup
                        {event @@ [_id |-> next_oid, created_at |-> now]}
         /\ next_oid' = next_oid + 1
    ELSE /\ \E d \in UpsertMatches(event) :
               events' = (events \ {d}) \cup {event @@ d}
         /\ UNCHANGED next_oid

\* EventDBService.save_events, called with a non-empty list
\* (calendar_service.py:175): the request is accepted and the loop starts.
MaxBatch == 2
Batches == UNION {[1..n -> RawEvents] : n \in 1..MaxBatch}
SyncReqs == [calendar_id : CalendarRefs, events : Batches]

SaveEvents(p, req) ==
    /\ Accept(p)
    /\ Begin(p, "save_events", [op |-> "save_events", req |-> req, i |-> 1])
    /\ UNCHANGED <<db, clock, availability_windows, tasks>>

\* One turn of the loop: parse the i-th event and upsert it. A KeyError
\* leaves the loop; the events before it are stored, the ones after it are
\* not looked at.
SaveEventsStep(p) ==
    /\ pc[p] = "save_events"
    /\ LET req == loc[p].req
           event == req.events[loc[p].i]
       IN  IF ParseRaises(event)
           THEN /\ Respond(p, "error")
                /\ UNCHANGED <<events, next_oid>>
           ELSE /\ UpsertEvent(ParseEventDict(req.calendar_id, event, now))
                /\ IF loc[p].i = Len(req.events)
                   THEN Respond(p, "ok")
                   ELSE /\ loc' = [loc EXCEPT ![p].i = @ + 1]
                        /\ UNCHANGED <<pc, resp>>
    /\ UNCHANGED <<schedule_links, scheduled_events, calendars, clock,
                   availability_windows, tasks, ops>>

\* ------------------------------------------------------ calendar disconnect
\* EventDBService.delete_calendar_events: delete_many by calendar_id alone.
DeleteCalendarEvents(calendar_id) ==
    {e \in events : e.calendar_id # calendar_id}

\* The calendar documents delete_one's filter {"user_email", "calendar_id"}
\* matches; the internal calendar documents have no calendar_id field.
OwnedCalendars(user, calendar_id) ==
    {c \in calendars :
        /\ "calendar_id" \in DOMAIN c
        /\ c.calendar_id = calendar_id
        /\ c.user_email = user}

DisconnectReqs == [user : Users, calendar_id : CalendarRefs \cup {"internal"}]

\* DELETE /calendars/{calendar_id} -> CalendarService.disconnect_calendar:
\* the events are deleted first.
DisconnectCalendar(p, req) ==
    /\ Accept(p)
    /\ events' = DeleteCalendarEvents(req.calendar_id)
    /\ Begin(p, "delete_calendar", [op |-> "disconnect", req |-> req])
    /\ UNCHANGED <<schedule_links, scheduled_events, calendars, next_oid,
                   clock, availability_windows, tasks>>

\* CalendarService.delete_calendar: delete_one of the caller's calendar
\* document; the route answers 404 when it deleted none.
DeleteCalendar(p) ==
    /\ pc[p] = "delete_calendar"
    /\ LET found == OwnedCalendars(loc[p].req.user, loc[p].req.calendar_id) IN
       IF found = {}
       THEN /\ Respond(p, "not_found")
            /\ UNCHANGED calendars
       ELSE /\ \E c \in found : calendars' = calendars \ {c}
            /\ Goto(p, "delete_calendar_events")
    /\ UNCHANGED <<schedule_links, scheduled_events, events, next_oid, clock,
                   availability_windows, tasks, ops>>

\* delete_calendar's own delete_calendar_events after a successful delete.
DeleteCalendarEventsAgain(p) ==
    /\ pc[p] = "delete_calendar_events"
    /\ events' = DeleteCalendarEvents(loc[p].req.calendar_id)
    /\ Respond(p, "ok")
    /\ UNCHANGED <<schedule_links, scheduled_events, calendars, next_oid,
                   clock, availability_windows, tasks, ops>>

\* ------------------------------------------------------ availability routes
\* AvailabilityWindow request items: weekday and two "HH:MM" strings that
\* match the field pattern, written here as minutes after midnight. The
\* pattern constrains each string alone; validate_times, which compares the
\* two, is called by no route.
WindowInputs ==
    [weekday : {"monday"}, start_time : {9 * 60, 17 * 60},
     end_time : {9 * 60, 17 * 60}]

Payloads == UNION {[1..n -> WindowInputs] : n \in 0..MaxBatch}

\* POST /availability: every window of the payload becomes a document of the
\* caller; an empty list inserts nothing.
NewWindows(user, windows) ==
    {[_id |-> next_oid + k - 1, user_id |-> user,
      weekday |-> windows[k].weekday,
      start_time |-> windows[k].start_time,
      end_time |-> windows[k].end_time] : k \in 1..Len(windows)}

SaveAvailability(p, user, windows) ==
    /\ Accept(p)
    /\ availability_windows' = availability_windows \cup NewWindows(user, windows)
    /\ next_oid' = next_oid + Len(windows)
    /\ RespondTo(p, "save_availability",
                 [user |-> user, windows |-> windows], "ok")
    /\ UNCHANGED <<schedule_links, scheduled_events, calendars, events, clock,
                   tasks>>

\* DELETE /availability/{window_id}: delete_one filtered by _id and user_id.
\* The HTTPException(404) raised for deleted_count == 0 is raised inside the
\* try block and caught by its `except Exception`, which answers 500.
OwnedWindows(user, window_id) ==
    {w \in availability_windows : w._id = window_id /\ w.user_id = user}

WindowIds == 2..4

DeleteAvailabilityWindow(p, user, window_id) ==
    /\ Accept(p)
    /\ availability_windows' =
          availability_windows \ OwnedWindows(user, window_id)
    /\ RespondTo(p, "delete_availability",
                 [user |-> user, window_id |-> window_id],
                 IF OwnedWindows(user, window_id) = {} THEN "error" ELSE "ok")
    /\ UNCHANGED <<schedule_links, scheduled_events, calendars, events,
                   next_oid, clock, tasks>>

\* ------------------------------------------- concurrent bookings (no clock)
DaySlots ==
    {[t |-> 9 * 3600, tz |-> ""], [t |-> 9 * 3600, tz |-> "+00:00"],
     [t |-> 10 * 3600, tz |-> ""]}
BookRequests ==
    [scheduling_link_id : 1..2, scheduled_for : DaySlots,
     duration_minutes : {45}, linkedin : {None}]

InitBook ==
    \E m \in {None, Some(1)} :
        InitWith({NewLink(1, "x", "intro-call", m, None),
                  NewLink(2, "x", "demo", None, None)})

NextBook ==
    \E p \in Procs :
        \/ \E req \in BookRequests : BookLoad(p, req)
        \/ BookStep(p)

SpecBook == InitBook /\ [][NextBook]_vars

\* ----------------------------------- bookings against an advancing clock
BoundarySlots ==
    {[t |-> SecondsPerDay, tz |-> ""], [t |-> SecondsPerDay, tz |-> "+00:00"],
     [t |-> SecondsPerDay + 1, tz |-> ""]}
ClockRequests ==
    [scheduling_link_id : {1}, scheduled_for : BoundarySlots,
     duration_minutes : {45}, linkedin : {None}]

InitClock ==
    \E c \in {<<None, None>>, <<Some(1), Some(0)>>} :
        InitWith({NewLink(1, "x", "intro-call", c[1], c[2])})

NextClock ==
    \/ \E d \in TickSteps : Tick(d)
    \/ \E p \in Procs :
        \/ \E req \in ClockRequests : BookLoad(p, req)
        \/ BookStep(p)

SpecClock == InitClock /\ [][NextClock]_vars

\* ------------------------- link registry and bookings, all handlers racing
LinkRequests ==
    [scheduling_link_id : 1..2,
     scheduled_for : {[t |-> 9 * 3600, tz |-> ""]},
     duration_minutes : {45}, linkedin : {None}]

InitLinks ==
    InitWith({NewLink(1, "x", "intro-call", Some(1), None)})

NextLinks ==
    \E p \in Procs :
        \/ \E req \in LinkRequests : BookLoad(p, req)
        \/ BookStep(p)
        \/ \E u \in Users, in \in LinkInputs : CreateCheck(p, u, in)
        \/ CreateInsert(p)
        \/ \E req \in UpdateReqs : UpdateLoad(p, req)
        \/ UpdateSlugCheck(p)
        \/ UpdateWrite(p)
        \/ \E slug \in Slugs : FetchLoad(p, slug)
        \/ FetchInc(p)
        \/ \E slug \in Slugs : IncrementLoad(p, slug)
        \/ IncrementWrite(p)
        \/ \E slug \in Slugs : PublicGet(p, slug)

SpecLinks == InitLinks /\ [][NextLinks]_vars

\* ------------------------------------------ bookings racing with link updates
NextUpdate ==
    \E p \in Procs :
        \/ \E req \in LinkRequests : BookLoad(p, req)
        \/ BookStep(p)
        \/ \E req \in UpdateReqs : UpdateLoad(p, req)
        \/ UpdateSlugCheck(p)
        \/ UpdateWrite(p)

SpecUpdate == InitLinks /\ [][NextUpdate]_vars

\* ------------------- bookings racing with updates of the meeting length
DurationRequests ==
    [scheduling_link_id : {1},
     scheduled_for : {[t |-> 9 * 3600, tz |-> ""], [t |-> 10 * 3600, tz |-> ""]},
     duration_minutes : {30, 45}, linkedin : {None}]

DurationUpdates ==
    [user : {"x"}, link_id : {1},
     link : [slug : Slugs, meetingLength : {30, 60},
             maxUses : {None}, expirationDate : {None},
             maxDaysInAdvance : {1}]]

NextDuration ==
    \E p \in Procs :
        \/ \E req \in DurationRequests : BookLoad(p, req)
        \/ BookStep(p)
        \/ \E req \in DurationUpdates : UpdateLoad(p, req)
        \/ UpdateSlugCheck(p)
        \/ UpdateWrite(p)

SpecDuration == InitLinks /\ [][NextDuration]_vars

\* ------------------- every rejection reason of book_meeting, clock advancing
ReasonRequests ==
    [scheduling_link_id : {1, 3},
     scheduled_for : {[t |-> SecondsPerDay, tz |-> ""],
                      [t |-> 2 * SecondsPerDay + 1, tz |-> ""]},
     duration_minutes : {45}, linkedin : {None}]

InitReasons == InitWith({NewLink(1, "x", "intro-call", Some(1), Some(0))})

NextReasons ==
    \/ Tick(SecondsPerDay)
    \/ \E p \in Procs :
        \/ \E req \in ReasonRequests : BookLoad(p, req)
        \/ BookStep(p)

SpecReasons == InitReasons /\ [][NextReasons]_vars

\* ------------------------------- bookings with storage calls that may fail
NextFail ==
    \E p \in Procs :
        \/ \E req \in LinkRequests : BookLoad(p, req)
        \/ BookStep(p)
        \/ BookStoreFails(p)

SpecFail == InitBook /\ [][NextFail]_vars

\* ------------------------------------ bookings and their background tasks
TaskRequests ==
    [scheduling_link_id : {1},
     scheduled_for : {[t |-> 9 * 3600, tz |-> ""]},
     duration_minutes : {45}, linkedin : {Some("in/alice")}]

InitTasks == InitWith({NewLink(1, "x", "intro-call", None, None)})

NextTasks ==
    \/ \E p \in Procs :
        \/ \E req \in TaskRequests : WorkerBookLoad(p, req)
        \/ WorkerBookStep(p)
        \/ WorkerRestart(p)
    \/ \E i \in DOMAIN tasks :
        \/ NotifyRun(i)
        \/ ScrapeBegin(i)
        \/ \E outcome \in ScrapeOutcomes : ScrapeEnd(i, outcome)
        \/ EnrichWrite(i)

SpecTasks == InitTasks /\ [][NextTasks]_vars

\* ------------------------------------------- enrichment called repeatedly
NextEnrich ==
    \/ \E p \in Procs :
        \/ \E req \in TaskRequests : WorkerBookLoad(p, req)
        \/ WorkerBookStep(p)
        \/ \E id \in 1..next_oid : EnrichAgain(p, id)
    \/ \E i \in DOMAIN tasks :
        \/ NotifyRun(i)
        \/ ScrapeBegin(i)
        \/ \E outcome \in ScrapeOutcomes : ScrapeEnd(i, outcome)
        \/ EnrichWrite(i)

SpecEnrich == InitTasks /\ [][NextEnrich]_vars

\* ----------------------------- the ledger insert, applied more than once
NextLedger ==
    \E p \in Procs :
        \/ \E req \in LinkRequests : BookLoad(p, req)
        \/ BookStep(p)
        \/ \E b \in scheduled_events : InsertInternalAgain(p, b)

SpecLedger == InitBook /\ [][NextLedger]_vars

\* -------------------------- two owners: bookings and public availability
\* Owner y's link 2 has been booked once, for 09:00; owner x has link 1.
InitBusy ==
    /\ schedule_links =
          {NewLink(1, "x", "intro-call", None, None),
           [NewLink(2, "y", "demo", None, None) EXCEPT !.uses = 1]}
    /\ scheduled_events =
          {[_id |-> 3, scheduling_link_id |-> 2, user_id |-> "y",
            scheduled_for |-> [t |-> 9 * 3600, tz |-> ""],
            duration_minutes |-> 30, linkedin |-> None, enrichment |-> None]}
    /\ calendars = {[id |-> "internal", user_email |-> "y"]}
    /\ events =
          {[_id |-> 4, calendar_id |-> "internal", id |-> 3,
            start_time |-> 9 * 3600, end_time |-> 9 * 3600 + 1800]}
    /\ next_oid = 5
    /\ now = 0
    /\ ticks = 0
    /\ ops = [p \in Procs |-> 0]
    /\ pc = [p \in Procs |-> "idle"]
    /\ loc = [p \in Procs |-> [op |-> "none"]]
    /\ resp = [p \in Procs |-> "none"]
    /\ tasks = <<>>
    /\ availability_windows = {}

BusyRequests ==
    [scheduling_link_id : 1..2,
     scheduled_for : {[t |-> 10 * 3600, tz |-> ""]},
     duration_minutes : {45}, linkedin : {None}]

NextBusy ==
    \E p \in Procs :
        \/ \E req \in BusyRequests : BookLoad(p, req)
        \/ BookStep(p)
        \/ \E slug \in Slugs : PublicGet(p, slug)

SpecBusy == InitBusy /\ [][NextBusy]_vars

\* --------------------------------------- creates and updates of links racing
NextSlugs ==
    \E p \in Procs :
        \/ \E u \in Users, in \in LinkInputs : CreateCheck(p, u, in)
        \/ CreateInsert(p)
        \/ \E req \in UpdateReqs : UpdateLoad(p, req)
        \/ UpdateSlugCheck(p)
        \/ UpdateWrite(p)

SpecSlugs == InitLinks /\ [][NextSlugs]_vars

\* ------------------------------ deletes of links that have bookings, racing
NextDelete ==
    \E p \in Procs :
        \/ \E req \in BusyRequests : BookLoad(p, req)
        \/ BookStep(p)
        \/ \E req \in DeleteReqs : DeleteLink(p, req)

SpecDelete == InitBusy /\ [][NextDelete]_vars

\* --------------------------------------- sync batches, one after the other
NextSync ==
    \E p \in Procs :
        \/ /\ \A q \in Procs : pc[q] = "idle"
           /\ \E req \in SyncReqs : SaveEvents(p, req)
        \/ SaveEventsStep(p)

SpecSync == InitLinks /\ [][NextSync]_vars

\* ---------------------------- disconnects of synced calendars, and bookings
\* Owner x has synced calendar "work" and owner y calendar "home", one event
\* each; y also has a booking with its internal calendar and interval.
SyncedEvent(oid, id, calendar_id, start) ==
    [_id |-> oid, id |-> id, calendar_id |-> calendar_id,
     summary |-> "standup", start_time |-> start, end_time |-> start + 1800,
     status |-> "confirmed", updated_at |-> 0, created_at |-> 0]

InitSynced ==
    /\ schedule_links =
          {NewLink(1, "x", "intro-call", None, None),
           [NewLink(2, "y", "demo", None, None) EXCEPT !.uses = 1]}
    /\ scheduled_events =
          {[_id |-> 3, scheduling_link_id |-> 2, user_id |-> "y",
            scheduled_for |-> [t |-> 9 * 3600, tz |-> ""],
            duration_minutes |-> 30, linkedin |-> None, enrichment |-> None]}
    /\ calendars = {[id |-> "internal", user_email |-> "y"],
                    [calendar_id |-> "work", user_email |-> "x"],
                    [calendar_id |-> "home", user_email |-> "y"]}
    /\ events =
          {[_id |-> 4, calendar_id |-> "internal", id |-> 3,
            start_time |-> 9 * 3600, end_time |-> 9 * 3600 + 1800],
           SyncedEvent(5, "e1", "work", 10 * 3600),
           SyncedEvent(6, "e2", "home", 10 * 3600)}
    /\ next_oid = 7
    /\ now = 0
    /\ ticks = 0
    /\ ops = [p \in Procs |-> 0]
    /\ pc = [p \in Procs |-> "idle"]
    /\ loc = [p \in Procs |-> [op |-> "none"]]
    /\ resp = [p \in Procs |-> "none"]
    /\ tasks = <<>>
    /\ availability_windows = {}

NextDisconnect ==
    \E p \in Procs :
        \/ \E req \in DisconnectReqs : DisconnectCalendar(p, req)
        \/ DeleteCalendar(p)
        \/ DeleteCalendarEventsAgain(p)
        \/ \E req \in BusyRequests : BookLoad(p, req)
        \/ BookStep(p)

SpecDisconnect == InitSynced /\ [][NextDisconnect]_vars

\* ------------------------------------- availability windows added, removed
NextAvailability ==
    \E p \in Procs :
        \/ \E u \in Users, windows \in Payloads : SaveAvailability(p, u, windows)
        \/ \E u \in Users, id \in WindowIds : DeleteAvailabilityWindow(p, u, id)

SpecAvailability == InitLinks /\ [][NextAvailability]_vars

\* ------------------------------ creates and public lookups, slugs as typed
NextCase ==
    \E p \in Procs :
        \/ \E u \in Users, body \in RawLinkInputs : CreateScheduleLink(p, u, body)
        \/ CreateInsert(p)
        \/ \E slug \in RawSlugs : PublicGet(p, slug)

SpecCase == InitLinks /\ [][NextCase]_vars

\* ----------------- bookings with and without a profile reference, and tasks
DispatchRequests ==
    [scheduling_link_id : {1, 3},
     scheduled_for : {[t |-> 9 * 3600, tz |-> ""]},
     duration_minutes : {45}, linkedin : {None, Some(""), Some("in/alice")}]

NextDispatch ==
    \/ \E p \in Procs :
        \/ \E req \in DispatchRequests : WorkerBookLoad(p, req)
        \/ WorkerBookStep(p)
    \/ \E i \in DOMAIN tasks :
        \/ NotifyRun(i)
        \/ ScrapeBegin(i)
        \/ \E outcome \in ScrapeOutcomes : ScrapeEnd(i, outcome)
        \/ EnrichWrite(i)

SpecDispatch == InitTasks /\ [][NextDispatch]_vars

\* ================================================================ claims
BookStages == {"book_check", "book_insert", "book_inc", "book_cal", "book_event"}

\* Worker p accepts a request of kind op in this step.
Starts(p, op) == ops'[p] = ops[p] + 1 /\ loc'[p].op = op

LinkOf(id) == CHOOSE l \in schedule_links : l._id = id

Booked(p) == pc[p] = "idle" /\ loc[p].op = "book"

\* ---------------------------------------------------------------------- C1
\* C1: when every worker has issued one book() against link 1, for pairwise
\* distinct start instants, and the link's maxUses k is below the number of
\* calls, exactly k of the calls succeed and the usage counter ends at k.
C1_ExactlyKSucceed ==
    ( /\ \A p \in Procs : ops[p] = 1 /\ Booked(p)
                          /\ loc[p].req.scheduling_link_id = 1
      /\ \A p, q \in Procs :
            p # q => ParseNaive(loc[p].req.scheduled_for)
                        # ParseNaive(loc[q].req.scheduled_for)
      /\ Truthy(LinkOf(1).maxUses)
      /\ Val(LinkOf(1).maxUses) < NumProcs )
    => /\ Cardinality({p \in Procs : resp[p] = "ok"}) = Val(LinkOf(1).maxUses)
       /\ LinkOf(1).uses = Val(LinkOf(1).maxUses)

\* ---------------------------------------------------------------------- C2
\* C2: no two committed bookings share (owner, requested_start); of two
\* finished identical requests on an uncapped link exactly one succeeded and
\* the other was answered "slot taken".
C2_UniqueOwnerStart ==
    /\ \A a, b \in scheduled_events :
          (a.user_id = b.user_id /\ a.scheduled_for = b.scheduled_for)
              => a._id = b._id
    /\ \A p, q \in Procs :
          ( /\ p # q /\ Booked(p) /\ Booked(q)
            /\ ops[p] = 1 /\ ops[q] = 1
            /\ loc[p].req = loc[q].req
            /\ LinkOf(loc[p].req.scheduling_link_id).maxUses = None )
          => {resp[p], resp[q]} = {"ok", "slot_taken"}

\* ---------------------------------------------------------------------- C3
\* C3: every link with maxUses set has uses <= maxUses, in every reachable
\* state of create, update, book, fetch by slug and increment-use racing.
C3_UsesWithinMax ==
    \A l \in schedule_links : Truthy(l.maxUses) => l.uses <= Val(l.maxUses)

\* ---------------------------------------------------------------------- C4
\* C4: a step changes a link's usage counter only if it is the increment of
\* a booking that has inserted its record.
C4_OnlyBookChangesUses ==
    [][\A l \in schedule_links : \A m \in schedule_links' :
          (l._id = m._id /\ l.uses # m.uses)
              => \E p \in Procs :
                    /\ pc[p] = "book_inc" /\ pc'[p] = "book_cal"
                    /\ loc[p].req.scheduling_link_id = l._id]_vars

\* ---------------------------------------------------------------------- C5
\* C5: no step lowers a link's usage counter.
C5_UsesNeverDecrease ==
    [][\A l \in schedule_links : \A m \in schedule_links' :
          l._id = m._id => m.uses >= l.uses]_vars

\* ---------------------------------------------------------------------- C6
\* C6: while no booking attempt is in progress, each link's usage counter is
\* the number of committed bookings that reference the link.
C6_UsesCountsBookings ==
    (\A p \in Procs : pc[p] \notin BookStages)
    => \A l \in schedule_links :
          l.uses = Cardinality({e \in scheduled_events :
                                   e.scheduling_link_id = l._id})

\* ---------------------------------------------------------------------- C7
Taken(user, s) ==
    \E e \in scheduled_events : e.user_id = user /\ e.scheduled_for = s

\* Another worker's book() for the same owner and the same scheduled_for
\* string has returned success, and nothing else is running.
PriorSuccess(p, req) ==
    /\ \A q \in Procs : pc[q] = "idle"
    /\ \E q \in Procs \ {p} :
          /\ Booked(q) /\ resp[q] = "ok"
          /\ loc[q].req.scheduled_for = req.scheduled_for
          /\ LinkOf(loc[q].req.scheduling_link_id).userId
                = LinkOf(req.scheduling_link_id).userId

\* The link checks that book_meeting makes before its conflict check, stated
\* on the stored link and the clock.
PassesLinkChecks(l, req) ==
    /\ l.expirationDate = None \/ Val(l.expirationDate) >= now \div SecondsPerDay
    /\ l.maxUses = None \/ l.uses < Val(l.maxUses)
    /\ req.scheduled_for.t <= now + l.maxDaysInAdvance * SecondsPerDay

ConflictCheckRejects(p) ==
    ( /\ pc[p] = "book_check" /\ pc'[p] # "book_check"
      /\ Taken(loc[p].link.userId, loc[p].req.scheduled_for) )
    => /\ resp'[p] = "slot_taken" /\ pc'[p] = "idle"
       /\ scheduled_events' = scheduled_events

\* C7 as claimed: a book() that starts right after a successful book() for
\* the same owner and timestamp goes on to the conflict check, whichever link
\* of the owner it names, and is answered "slot taken" there.
C7_SecondIsSlotTaken ==
    [][\A p \in Procs :
          /\ (Starts(p, "book") /\ PriorSuccess(p, loc'[p].req))
                => resp'[p] = "pending"
          /\ ConflictCheckRejects(p)]_vars

\* C7 as amended: such a book() creates no booking and is rejected; it is
\* answered "slot taken" whenever it passes the link's expiry, usage-cap and
\* advance-window checks, which come first and otherwise give the reason.
C7_SecondIsRejected ==
    [][\A p \in Procs :
          /\ (Starts(p, "book") /\ PriorSuccess(p, loc'[p].req))
                => LET l == LinkOf(loc'[p].req.scheduling_link_id) IN
                   /\ scheduled_events' = scheduled_events
                   /\ resp'[p] \in {"pending", "expired", "max_uses", "too_far"}
                   /\ PassesLinkChecks(l, loc'[p].req) => resp'[p] = "pending"
          /\ ConflictCheckRejects(p)
          /\ \A e \in scheduled_events : e \in scheduled_events']_vars

\* A second request through the owner's other link was answered "slot taken".
C7_Witness ==
    \E p, q \in Procs :
        /\ p # q /\ Booked(p) /\ Booked(q)
        /\ resp[q] = "ok" /\ resp[p] = "slot_taken"
        /\ loc[p].req.scheduled_for = loc[q].req.scheduled_for
        /\ loc[p].req.scheduling_link_id # loc[q].req.scheduling_link_id

\* ---------------------------------------------------------------------- C8
\* C8: the increment step of a booking raises the usage counter of its link
\* by exactly one and no other step of a booking changes a link; a book()
\* that finds uses >= maxUses on a link that has not expired is answered
\* "max uses reached", whatever slot it asks for.
C8_CapEnforced ==
    [][\A p \in Procs :
          /\ (pc[p] = "book_inc" /\ pc'[p] # "book_inc")
                => schedule_links' =
                      {IF l._id = loc[p].req.scheduling_link_id
                       THEN [l EXCEPT !.uses = l.uses + 1] ELSE l :
                          l \in schedule_links}
          /\ ((pc[p] \in BookStages \ {"book_inc"} /\ pc'[p] # pc[p])
                 \/ Starts(p, "book"))
                => schedule_links' = schedule_links
          /\ Starts(p, "book")
                => \A l \in schedule_links :
                      ( /\ l._id = loc'[p].req.scheduling_link_id
                        /\ l.maxUses # None /\ l.uses >= Val(l.maxUses)
                        /\ (l.expirationDate = None
                              \/ Val(l.expirationDate) >= now \div SecondsPerDay) )
                      => resp'[p] = "max_uses"]_vars

\* maxUses = 1: one booking succeeded, usage is 1, and a request for another
\* start time was answered "max uses reached".
C8_Witness ==
    \E p, q \in Procs :
        /\ Booked(p) /\ Booked(q) /\ resp[q] = "ok" /\ resp[p] = "max_uses"
        /\ loc[p].req.scheduled_for.t # loc[q].req.scheduled_for.t
        /\ LinkOf(1).maxUses = Some(1) /\ LinkOf(1).uses = 1

\* ---------------------------------------------------------------------- C9
\* C9: a book() on a link with an expiration date is answered "expired"
\* exactly when the UTC date of the request is later than that date.
C9_ExpiredIffPastDate ==
    [][\A p \in Procs : Starts(p, "book")
          => \A l \in schedule_links :
                (l._id = loc'[p].req.scheduling_link_id
                    /\ l.expirationDate # None)
                => ((resp'[p] = "expired")
                      <=> (now \div SecondsPerDay > Val(l.expirationDate)))]_vars

\* At the first second of the day after the expiration date one request was
\* answered "expired", after another had passed on the date's last second.
C9_Witness ==
    /\ now = SecondsPerDay
    /\ LinkOf(1).expirationDate = Some(0)
    /\ \E p, q \in Procs :
          /\ loc[p].op = "book" /\ resp[p] = "expired"
          /\ loc[q].op = "book" /\ resp[q] \in {"pending", "ok"}

\* --------------------------------------------------------------------- C10
\* C10: the advance-window check never rejects a requested_start at or before
\* now + maxDaysInAdvance days, and a request that reaches the check with a
\* later requested_start (one second later included) is answered "too far".
C10_AdvanceWindow ==
    [][\A p \in Procs : Starts(p, "book")
          => \A l \in schedule_links :
                l._id = loc'[p].req.scheduling_link_id
                => LET t == loc'[p].req.scheduled_for.t
                       limit == now + l.maxDaysInAdvance * SecondsPerDay
                   IN  /\ t <= limit => resp'[p] # "too_far"
                       /\ ( /\ t > limit
                            /\ (l.expirationDate = None
                                  \/ Val(l.expirationDate) >= now \div SecondsPerDay)
                            /\ (l.maxUses = None \/ l.uses < Val(l.maxUses)) )
                          => resp'[p] = "too_far"]_vars

\* With the clock unchanged, a request for exactly now + 1 day went on and a
\* request for one second later was answered "too far".
C10_Witness ==
    \E p, q \in Procs :
        /\ loc[p].op = "book" /\ resp[p] = "too_far"
        /\ loc[p].req.scheduled_for.t = now + LinkOf(1).maxDaysInAdvance * SecondsPerDay + 1
        /\ loc[q].op = "book" /\ resp[q] \in {"pending", "ok"}
        /\ loc[q].req.scheduled_for.t = now + LinkOf(1).maxDaysInAdvance * SecondsPerDay

\* C11: every committed booking's duration is the meetingLength of the link
\* as that booking attempt loaded it, whatever duration the client sent, and
\* the busy interval mirrored for the booking has exactly that length.
C11_DurationFromLink ==
    [][/\ \A p \in Procs :
            pc[p] = "book_insert" /\ pc'[p] = "book_inc" =>
                \E b \in scheduled_events' \ scheduled_events :
                    /\ b._id = loc'[p].event_id
                    /\ b.duration_minutes = loc[p].link.meetingLength
        /\ \A e \in events' :
              \E bk \in scheduled_events' :
                  /\ bk._id = e.id
                  /\ e.end_time - e.start_time = 60 * bk.duration_minutes]_vars

\* A committed booking that kept the 30 minutes it loaded although the client
\* sent 45 and the link was updated to 60 meanwhile.
C11_Witness ==
    \E b \in scheduled_events, e \in events, l \in schedule_links :
        /\ e.id = b._id
        /\ l._id = b.scheduling_link_id
        /\ l.meetingLength = 60
        /\ b.duration_minutes = 30
        /\ e.end_time - e.start_time = 1800
\* --------------------------------------------------------------------- C12
\* The first check, in the order not-found, expired, usage-exceeded,
\* too-far-in-advance, that the stored link and the clock fail for a request.
FirstFailing(req) ==
    IF \A l \in schedule_links : l._id # req.scheduling_link_id
    THEN "not_found"
    ELSE LET l == LinkOf(req.scheduling_link_id) IN
         IF l.expirationDate # None
               /\ now \div SecondsPerDay > Val(l.expirationDate)
         THEN "expired"
         ELSE IF l.maxUses # None /\ l.uses >= Val(l.maxUses) THEN "max_uses"
         ELSE IF req.scheduled_for.t > now + l.maxDaysInAdvance * SecondsPerDay
         THEN "too_far"
         ELSE "pending"

\* C12: a book() that fails before the commit reports one reason out of
\* not-found, expired, usage-exceeded, too-far-in-advance and slot-taken, and
\* when several constraints are violated, the first failing one in that order.
C12_FirstFailingReason ==
    [][\A p \in Procs :
        /\ Starts(p, "book") => resp'[p] = FirstFailing(loc'[p].req)
        /\ (pc[p] = "book_check" /\ pc'[p] # "book_check") =>
              resp'[p] = IF Taken(loc[p].link.userId, loc[p].req.scheduled_for)
                         THEN "slot_taken" ELSE "pending"
        /\ (loc'[p].op = "book" /\ pc'[p] = "idle") =>
              resp'[p] \in {"ok", "not_found", "expired", "max_uses",
                            "too_far", "slot_taken"}]_vars

\* A request beyond the advance window on a link whose cap is used up was
\* answered with the usage reason.
C12_Witness ==
    \E p \in Procs :
        /\ Booked(p) /\ resp[p] = "max_uses"
        /\ loc[p].req.scheduled_for.t > now + SecondsPerDay
\* --------------------------------------------------------------------- C13
\* C13: a book() ends in success or in a failure with one reason, and the
\* store agrees: after a failure no booking record, usage increment or busy
\* interval of the attempt is there, after a success all three are.
C13_OutcomeMatchesStore ==
    [][\A p \in Procs :
        (pc[p] \in BookStages /\ pc'[p] = "idle") =>
            IF resp'[p] = "ok"
            THEN /\ \E b \in scheduled_events' : b._id = loc[p].event_id
                 /\ \E e \in events' : e.id = loc[p].event_id
                 /\ \A l \in schedule_links' :
                       l._id = loc[p].req.scheduling_link_id => l.uses >= 1
            ELSE /\ "event_id" \in DOMAIN loc[p] =>
                       /\ \A b \in scheduled_events' : b._id # loc[p].event_id
                       /\ \A e \in events' : e.id # loc[p].event_id
                 /\ OpsStarted = 1 => \A l \in schedule_links' : l.uses = 0]_vars
\* --------------------------------------------------------------------- C14
\* A step of a background task or the loss of tasks: none is added.
TaskStep == tasks' # tasks /\ Len(tasks') <= Len(tasks)

WithoutEnrichment(bookings) == {[b EXCEPT !.enrichment = None] : b \in bookings}

\* C14: after the commit, no step of the notification or enrichment task,
\* its failure or its loss included, changes a response already given or
\* removes or alters a committed booking record (the enrichment field aside),
\* a usage counter or a busy interval.
C14_TasksLeaveCommitAlone ==
    [][TaskStep =>
        /\ resp' = resp
        /\ WithoutEnrichment(scheduled_events') = WithoutEnrichment(scheduled_events)
        /\ Cardinality(scheduled_events') = Cardinality(scheduled_events)
        /\ schedule_links' = schedule_links
        /\ calendars' = calendars
        /\ events' = events]_vars

\* A booking answered with success whose enrichment task failed to scrape
\* the profile; the booking, its counter and its interval stand.
C14_Witness ==
    \E i \in DOMAIN tasks :
        /\ tasks[i].kind = "enrich" /\ tasks[i].st = "write"
        /\ Val(tasks[i].payload).linkedin_summary = "scrape_error"
        /\ resp[tasks[i].worker] = "ok"
        /\ \E b \in scheduled_events : b._id = tasks[i].event_id
        /\ \E e \in events : e.id = tasks[i].event_id
        /\ \A l \in schedule_links : l.uses = Cardinality(scheduled_events)

\* --------------------------------------------------------------------- C15
QueueWithout(i) ==
    [j \in 1..(Len(tasks) - 1) |-> IF j < i THEN tasks[j] ELSE tasks[j + 1]]

\* C15: the enrichment write is keyed by booking id and replaces the
\* enrichment field only: after it the booking named by the call holds that
\* call's payload, whatever an earlier call left there; no other field of the
\* booking and no other booking changes, and no booking is created.
C15_EnrichWriteByIdOnly ==
    [][\A i \in DOMAIN tasks :
        (tasks[i].st = "write" /\ tasks' = QueueWithout(i)) =>
            scheduled_events' =
                {IF b._id = tasks[i].event_id
                 THEN [b EXCEPT !.enrichment = tasks[i].payload]
                 ELSE b : b \in scheduled_events}]_vars

\* A booking that holds the payload of a first call while a second call for
\* the same booking is about to write a different one.
C15_Witness ==
    \E b \in scheduled_events, i \in DOMAIN tasks :
        /\ b.enrichment # None
        /\ tasks[i].st = "write"
        /\ tasks[i].event_id = b._id
        /\ tasks[i].payload # b.enrichment

\* --------------------------------------------------------------------- C16
\* C16: while an enrichment task is executing on a worker, a book() request
\* at that worker can take its next step: a request in flight goes on, and a
\* request that arrives is taken up.
C16_BookNotBlocked ==
    \A i \in DOMAIN tasks :
        tasks[i].st = "scraping" =>
            /\ pc[tasks[i].worker] \in BookStages =>
                  ENABLED WorkerBookStep(tasks[i].worker)
            /\ (pc[tasks[i].worker] = "idle" /\ OpsStarted < MaxOps) =>
                  ENABLED (\E req \in TaskRequests :
                              WorkerBookLoad(tasks[i].worker, req))

\* --------------------------------------------------------------------- C17
Committing(b) ==
    \E p \in Procs :
        /\ pc[p] \in BookStages
        /\ "event_id" \in DOMAIN loc[p]
        /\ loc[p].event_id = b._id

IntervalOwner(e) == (CHOOSE b \in scheduled_events : b._id = e.id).user_id

\* C18: the busy intervals returned for a link's owner are exactly the stored
\* intervals of that owner that meet the queried range [now, now +
\* maxDaysInAdvance]: none is missing and none of another owner is included.
C18_BusyOfOwnerOnly ==
    [][\A p \in Procs :
        (Starts(p, "public_get") /\ resp'[p] = "ok") =>
            loc'[p].events =
                {e \in events :
                    /\ IntervalOwner(e) = loc'[p].link.userId
                    /\ e.start_time <= now + Days(loc'[p].link.maxDaysInAdvance)
                    /\ e.end_time >= now}]_vars

\* --------------------------------------------------------------------- C19
SlugHeldBy(user, slug, others) ==
    \E l \in others : l.userId = user /\ l.slug = slug

C20_StorageConflictIsDomainError ==
    [][\A p \in Procs :
        ( /\ pc[p] \in {"create_insert", "update_write"}
          /\ pc'[p] = "idle"
          /\ SlugHeldBy(loc[p].req.user, loc[p].req.link.slug,
                 {l \in schedule_links :
                     loc[p].op = "create" \/ l._id # loc[p].req.link_id}) )
        => resp'[p] = "conflict"]_vars

\* --------------------------------------------------------------------- C21
\* C21: the step in which an update writes leaves every link's usage
\* counter, creation time and owner as they were just before it, and an
\* update answered not-found (the caller does not own the link) leaves the
\* whole store as it was.
C21_UpdateKeepsCounters ==
    [][\A p \in Procs :
          /\ (pc[p] = "update_write" /\ pc'[p] = "idle")
                => \A l \in schedule_links : \E m \in schedule_links' :
                      /\ m._id = l._id
                      /\ m.uses = l.uses
                      /\ m.createdAt = l.createdAt
                      /\ m.userId = l.userId
          /\ (Starts(p, "update") /\ resp'[p] = "not_found")
                => db' = db]_vars

\* --------------------------------------------------------------------- C22
\* C22: a delete leaves every booking and every busy interval in place, and
\* a delete repeated by the same caller for a link that an earlier delete of
\* theirs removed succeeds again and leaves the store as it was.
C22_DeleteIdempotent ==
    [][\A p \in Procs :
          Starts(p, "delete")
            => /\ scheduled_events' = scheduled_events
               /\ events' = events
               /\ (\E q \in Procs :
                      /\ loc[q].op = "delete"
                      /\ loc[q].req = loc'[p].req
                      /\ resp[q] = "ok")
                    => (resp'[p] = "ok" /\ db' = db)]_vars

\* --------------------------------------------------------------------- C23
\* The last event of a batch that has the source id of the batch's k-th event.
LastOf(batch, k) ==
    batch[CHOOSE j \in 1..Len(batch) :
            /\ batch[j].id = batch[k].id
            /\ \A h \in (j + 1)..Len(batch) : batch[h].id # batch[k].id]

\* C23: the ledger never holds two intervals with the same source id and
\* calendar id; a turn of a batch leaves every interval that the batch does
\* not contain as it was; and when a batch ends, each interval the batch
\* contained is in the ledger with the start and end of its last occurrence
\* in the batch.
C23_UpsertSynced ==
    [][/\ \A a, b \in events :
            (a.id = b.id /\ a.calendar_id = b.calendar_id) => a = b
       /\ \A p \in Procs :
            pc[p] = "save_events"
              => LET req == loc[p].req IN
                 /\ \A d \in events :
                       (\/ d.calendar_id # req.calendar_id
                        \/ \A k \in 1..Len(req.events) : req.events[k].id # d.id)
                         => d \in events'
                 /\ pc'[p] = "idle"
                       => \A k \in 1..Len(req.events) :
                            \E d \in events' :
                               /\ d.id = req.events[k].id
                               /\ d.calendar_id = req.calendar_id
                               /\ d.start_time = ParseTime(LastOf(req.events, k).start)
                               /\ d.end_time = ParseTime(LastOf(req.events, k).start) + 1800]_vars

\* --------------------------------------------------------------------- C24
\* C24: a step of a disconnect request leaves every interval of another
\* calendar in place, and removes no interval at all when the caller owns no
\* calendar with the requested id.
C24_DisconnectOwnCalendarOnly ==
    [][\A p \in Procs :
          (\/ Starts(p, "disconnect")
           \/ /\ pc[p] \in {"delete_calendar", "delete_calendar_events"}
              /\ pc'[p] # pc[p])
            => LET req == loc'[p].req IN
               /\ \A e \in events :
                     e.calendar_id # req.calendar_id => e \in events'
               /\ OwnedCalendars(req.user, req.calendar_id) = {}
                     => events' = events]_vars

\* --------------------------------------------------------------------- C25
\* C25: every stored availability window has start < end, and an add whose
\* payload holds a window with start >= end is answered with a validation
\* error and stores nothing.
C25_WindowsStartBeforeEnd ==
    [][/\ \A w \in availability_windows' : w.start_time < w.end_time
       /\ \A p \in Procs :
            (/\ Starts(p, "save_availability")
             /\ \E k \in 1..Len(loc'[p].req.windows) :
                   loc'[p].req.windows[k].start_time
                      >= loc'[p].req.windows[k].end_time)
              => /\ resp'[p] = "validation_error"
                 /\ availability_windows' = availability_windows]_vars

\* --------------------------------------------------------------------- C26
\* C26: a remove of a window the caller owns removes exactly that window;
\* a remove of a window that does not exist or belongs to someone else is
\* answered not-found and leaves the stored windows as they were.
C26_RemoveOwnedOrNotFound ==
    [][\A p \in Procs :
          Starts(p, "delete_availability")
            => LET req == loc'[p].req
                   owned == OwnedWindows(req.user, req.window_id)
               IN  IF owned # {}
                   THEN /\ resp'[p] = "ok"
                        /\ availability_windows' = availability_windows \ owned
                   ELSE /\ resp'[p] = "not_found"
                        /\ availability_windows' = availability_windows]_vars

\* --------------------------------------------------------------------- C27
\* C27: every stored slug is lowercase and a created link starts with usage
\* 0; a create is refused when the owner already has a link whose slug is
\* the lowercase of the requested one; and a public lookup with a slug S
\* finds a link whenever a link is stored under the lowercase of S.
C27_SlugCaseInsensitive ==
    [][/\ \A l \in schedule_links' : l.slug = ValidateSlug(l.slug)
       /\ \A l \in schedule_links' \ schedule_links : l.uses = 0
       /\ \A p \in Procs :
            /\ (/\ Starts(p, "create")
                /\ \E l \in schedule_links :
                      /\ l.userId = loc'[p].req.user
                      /\ l.slug = loc'[p].req.link.slug)
                 => resp'[p] = "conflict"
            /\ (/\ Starts(p, "public_get")
                /\ \E l \in schedule_links :
                      l.slug = ValidateSlug(loc'[p].req))
                 => resp'[p] # "not_found"]_vars

\* --------------------------------------------------------------------- C28
\* C28: the steps of a book() up to and including its conflict check (the
\* load with the link checks, then the lookup of an existing booking) write
\* nothing: bookings, links, calendars, busy intervals and the task queue
\* are the same after the step, whether it rejects the attempt or lets it
\* pass; and only these steps reject.
C28_RejectionWritesNothing ==
    [][\A p \in Procs :
          /\ (\/ Starts(p, "book")
              \/ pc[p] = "book_check" /\ pc'[p] # "book_check")
                => (db' = db /\ tasks' = tasks)
          /\ (/\ loc'[p].op = "book" /\ pc'[p] = "idle" /\ pc[p] # pc'[p]
              /\ resp'[p] \in {"not_found", "expired", "max_uses", "too_far",
                               "slot_taken"})
                => (pc[p] \in {"idle", "book_check"} /\ db' = db
                    /\ tasks' = tasks)]_vars

\* An attempt was rejected by the conflict check while the booking that took
\* the slot, and nothing of the rejected attempt, is in the store.
C28_Witness ==
    \E p, q \in Procs :
        /\ Booked(p) /\ resp[p] = "slot_taken"
        /\ Booked(q) /\ resp[q] = "ok"
        /\ Cardinality(scheduled_events) = 1
        /\ Cardinality(events) = 1
        /\ LinkOf(1).uses = 1

\* --------------------------------------------------------------------- C29
\* The tasks a successful booking is said to enqueue: one notification, and
\* one enrichment when the request carries a non-empty profile reference.
Dispatched(p, event_id, req) ==
    <<[kind |-> "notify", worker |-> p, event_id |-> event_id,
       st |-> "queued", payload |-> None]>>
    \o (IF req.linkedin \in {None, Some("")} THEN <<>>
        ELSE <<[kind |-> "enrich", worker |-> p, event_id |-> event_id,
                st |-> "queued", payload |-> None]>>)

\* C29: the step that completes a book() appends exactly these tasks to the
\* queue, with the booking record, the usage increment and the busy interval
\* of the attempt in the store; no other step, and no rejected attempt, adds
\* a task.
C29_TasksAfterCommit ==
    [][/\ \A p \in Procs :
            (loc'[p].op = "book" /\ pc'[p] = "idle" /\ pc[p] # "idle")
              => IF resp'[p] = "ok"
                 THEN /\ tasks' = tasks \o Dispatched(p, loc[p].event_id, loc[p].req)
                      /\ \E b \in scheduled_events' : b._id = loc[p].event_id
                      /\ \E e \in events' : e.id = loc[p].event_id
                      /\ LinkOf(loc[p].req.scheduling_link_id).uses' >= 1
                 ELSE tasks' = tasks
       /\ Len(tasks') > Len(tasks)
            => \E p \in Procs : pc[p] = "book_event" /\ resp'[p] = "ok"]_vars

\* A booking without a profile reference has been committed and the queue
\* holds its notification and nothing else.
C29_Witness ==
    \E p \in Procs : \E b \in scheduled_events :
        /\ Booked(p) /\ resp[p] = "ok"
        /\ b.linkedin = None
        /\ tasks = <<Task("notify", p, b._id)>>

\* --------------------------------------------------------------------- C30
\* C30: no two stored links have the same slug, and a public lookup that
\* finds a link finds one of the only owner who has a link with that slug.
C30_SlugDeterminesLink ==
    [][/\ \A a, b \in schedule_links' : a.slug = b.slug => a._id = b._id
       /\ \A p \in Procs :
            (Starts(p, "public_get") /\ resp'[p] = "ok")
              => \A l \in LinksBySlug(loc'[p].req) :
                    l.userId = loc'[p].link.userId]_vars
====
